---- MODULE Spec2Model ----
(***************************************************************************)
(* Model of three parts of shadowsocks-service:                            *)
(*   - manager/server.rs: Manager (instance map behind a tokio Mutex,      *)
(*     the control-protocol receive loop, add_server)                      *)
(*   - local/net/auto_proxy_stream.rs: AutoProxyClientStream connect paths *)
(*   - local/loadbalancing/server_stat.rs: ServerStat rolling statistics   *)
(* Each part has its own specification (SpecManager, SpecConn, SpecStat);  *)
(* the variables of the other parts stay at their initial values.          *)
(***************************************************************************)
EXTENDS Integers, Sequences, FiniteSets, TLC

(***************************************************************************)
(* Bounds of the model                                                     *)
(***************************************************************************)
\* number of server instances add_server may spawn in one behaviour
MaxInst == 2
\* total bytes the server tasks may relay in one behaviour
MaxBytes == 1

\* number of connection attempts in one behaviour
MaxConn == 3

\* number of push_score calls in one behaviour
MaxPushes == 150
\* number of leading pushes whose outcome is chosen freely
FreeLen == 2

\* listening ports of the control requests (u16 keys of the map)
Ports == {1, 2}
\* passwords of the Add requests
Passwords == {"pw"}
\* callers of the public add_server before run(self) takes the manager
Callers == {"c1", "c2"}
\* the task that executes Manager::run
Loop == "run"
Procs == Callers \cup {Loop}
Insts == 1..MaxInst

VARIABLES
    \* ---- Manager (manager/server.rs) ----
    servers,    \* Manager.servers: port -> instance id, 0 when the port has no entry
    lock,       \* owner of the tokio Mutex around servers, "none" when free
    instPort,   \* ServerInstance.svr_cfg.addr().port() of each spawned instance
    instPw,     \* ServerInstance.svr_cfg.password()
    aborted,    \* AbortHandle: TRUE once abort() was called
    task,       \* state of the spawned server future
    tx, rx,     \* ServerInstance.flow_stat counters
    nInst,      \* number of instances spawned so far
    pc,         \* position of each process in its code
    arg,        \* svr_cfg argument of the add_server call in progress
    victim,     \* local v of add_server: the instance taken out of the map, 0 if none
    fresh,      \* locals flow_stat/abortable of add_server: the instance just spawned
    req,        \* request decoded by the loop
    rsp,        \* response computed by the handler
    removedOk,  \* ports whose Remove returned "ok" with no Add inserted since
    inflight,   \* requests decoded whose handling has not completed
    dropped,    \* TRUE when the last recv_from returned an error
    \* ---- AutoProxyClientStream (local/net/auto_proxy_stream.rs) ----
    cpc,        \* position of the connection attempt in progress
    cpath,      \* branch taken: "none", "direct" or "proxy"
    cresult,    \* value returned: "none", "Proxied", "Bypassed" or "Err"
    creports,   \* server.report_failure() calls made by the attempt in progress
    clog,       \* the finished attempts: <<path, result, reports>>
    \* ---- ServerStat (local/loadbalancing/server_stat.rs) ----
    rtt,            \* median latency in ms
    fail_rate,      \* the f64 cerr / len, kept as the fraction [num, den]
    latency_queue,  \* VecDeque<Score>
    latency_stdev,  \* the f64 sqrt(x), kept as the fraction x = [num, den] under the root
    latency_mean,   \* the f64 total / n, kept as the fraction [num, den]
    pushed,         \* every score given to push_score so far, in order
    returned        \* the u64 returned by the last push_score, -1 before the first call

mvars == <<servers, lock, instPort, instPw, aborted, task, tx, rx, nInst, pc, arg,
           victim, fresh, req, rsp, removedOk, inflight, dropped>>

cvars == <<cpc, cpath, cresult, creports, clog>>

svars == <<rtt, fail_rate, latency_queue, latency_stdev, latency_mean, pushed, returned>>

vars == <<mvars, cvars, svars>>

NoReq == [op |-> "None", port |-> 0, pw |-> "", method |-> "none", mode |-> "none"]
NoRsp == [kind |-> "None", text |-> "", servers |-> <<>>, stat |-> {}]
NoArg == [port |-> 0, pw |-> ""]

\* const MAX_SERVER_RTT: u64 = DEFAULT_CHECK_TIMEOUT_SEC * 1000
MAX_SERVER_RTT == 2000

\* const MAX_LATENCY_QUEUE_SIZE: usize = 99
MAX_LATENCY_QUEUE_SIZE == 99

\* a constructor that starts the server with no failure on record
newUnfailed ==
    [rtt |-> MAX_SERVER_RTT,
     fail_rate |-> [num |-> 0, den |-> 1],
     latency_queue |-> <<>>,
     latency_stdev |-> [num |-> 0, den |-> 1],
     latency_mean |-> [num |-> 0, den |-> 1]]

\* ServerStat::new(): rtt MAX_SERVER_RTT, fail_rate 1.0, an empty queue,
\* latency_stdev 0.0, latency_mean 0.0
new ==
    [rtt |-> MAX_SERVER_RTT,
     fail_rate |-> [num |-> 1, den |-> 1],
     latency_queue |-> <<>>,
     latency_stdev |-> [num |-> 0, den |-> 1],
     latency_mean |-> [num |-> 0, den |-> 1]]

\* Manager::with_context: an empty map, nothing spawned, no process running;
\* no connection attempt made; ServerStat::new()
Init ==
    /\ servers = [p \in Ports |-> 0]
    /\ lock = "none"
    /\ instPort = [i \in Insts |-> 0]
    /\ instPw = [i \in Insts |-> ""]
    /\ aborted = [i \in Insts |-> FALSE]
    /\ task = [i \in Insts |-> "none"]
    /\ tx = [i \in Insts |-> 0]
    /\ rx = [i \in Insts |-> 0]
    /\ nInst = 0
    /\ pc = [p \in Procs |-> IF p = Loop THEN "init" ELSE "idle"]
    /\ arg = [p \in Procs |-> NoArg]
    /\ victim = [p \in Procs |-> 0]
    /\ fresh = [p \in Procs |-> 0]
    /\ req = NoReq
    /\ rsp = NoRsp
    /\ removedOk = {}
    /\ inflight = 0
    /\ dropped = FALSE
    /\ cpc = "idle"
    /\ cpath = "none"
    /\ cresult = "none"
    /\ creports = 0
    /\ clog = <<>>
    /\ rtt = new.rtt
    /\ fail_rate = new.fail_rate
    /\ latency_queue = new.latency_queue
    /\ latency_stdev = new.latency_stdev
    /\ latency_mean = new.latency_mean
    /\ pushed = <<>>
    /\ returned = -1

(***************************************************************************)
(* Manager: pieces of the code used by the actions                         *)
(***************************************************************************)
\* a lock() that does not wait for the owner to release the mutex
MutexFreeNoWait(l) == TRUE

\* self.servers.lock().await completes only while no guard is alive
MutexFree(l) == l = "none"

\* a ServerInstance whose drop leaves the task running
DropWithoutAbort(ab, i) == ab

\* impl Drop for ServerInstance: self.abortable.abort()
DropServerInstance(ab, i) == [ab EXCEPT ![i] = TRUE]

\* a lookup in place of the removal: the entry stays in the map
MapRemoveKeeps(m, port) == m

\* HashMap::remove(&port)
MapRemove(m, port) == [m EXCEPT ![port] = 0]

\* HashMap::insert(port, instance)
MapInsert(m, port, i) == [m EXCEPT ![port] = i]

\* a remove handler that reports an absent port as an error
RemoveResponseNotFound(found) == IF found THEN "ok" ELSE "not found"

\* handle_remove: RemoveResponse("ok".to_owned()), whatever remove() returned
RemoveResponse(found) == "ok"

\* a handle_add that takes every method and mode string
AddParseAccepts(r) == ""

\* handle_add: the text of the AddResponse decided by the two parse::<..>() calls,
\* "" when both the method and the mode are accepted
AddParseError(r) ==
    IF r.method = "bad" THEN "unrecognized method"
    ELSE IF r.mode = "bad" THEN "unrecognized mode"
    ELSE ""

\* ports that have an entry in the map
Bound(m) == {p \in Ports : m[p] # 0}

\* the orders in which HashMap::iter() may visit the entries
IterOrders(m) ==
    {o \in [1..Cardinality(Bound(m)) -> Bound(m)] :
        \A a, b \in DOMAIN o : a # b => o[a] # o[b]}

\* handle_list: one protocol::ServerConfig {server_port, password} per visited entry
ListEntries(m, o) ==
    [k \in DOMAIN o |-> [server_port |-> instPort[m[o[k]]], password |-> instPw[m[o[k]]]]]

\* a ping that reports the transmitted bytes only
PingStatTxOnly(m) == {<<p, tx[m[p]]>> : p \in Bound(m)}

\* handle_ping: stat.insert(*port, flow_stat.tx() + flow_stat.rx()) per entry
PingStat(m) == {<<p, tx[m[p]] + rx[m[p]]>> : p \in Bound(m)}

\* the bound MaxInst leaves room for one more spawned server
Budget == nInst < MaxInst

(***************************************************************************)
(* Manager::add_server, executed by process p (a caller, or the loop       *)
(* through handle_add)                                                     *)
(***************************************************************************)
\* a caller invokes the public add_server(svr_cfg, mode); run(self) has not
\* taken the manager yet
CallAddServer(p, port, pw) ==
    /\ p \in Callers
    /\ pc[p] = "idle"
    /\ pc[Loop] = "init"
    /\ Budget
    /\ arg' = [arg EXCEPT ![p] = [port |-> port, pw |-> pw]]
    /\ pc' = [pc EXCEPT ![p] = "as_lock"]
    /\ UNCHANGED <<servers, lock, instPort, instPw, aborted, task, tx, rx, nInst,
                   victim, fresh, req, rsp, removedOk, inflight, dropped, cvars, svars>>

\* let mut servers = self.servers.lock().await
AsLock(p) ==
    /\ pc[p] = "as_lock"
    /\ MutexFree(lock)
    /\ lock' = p
    /\ pc' = [pc EXCEPT ![p] = "as_remove"]
    /\ UNCHANGED <<servers, instPort, instPw, aborted, task, tx, rx, nInst, arg,
                   victim, fresh, req, rsp, removedOk, inflight, dropped, cvars, svars>>

\* if let Some(v) = servers.remove(&server_port)
AsRemove(p) ==
    /\ pc[p] = "as_remove"
    /\ victim' = [victim EXCEPT ![p] = servers[arg[p].port]]
    /\ servers' = MapRemove(servers, arg[p].port)
    /\ pc' = [pc EXCEPT ![p] = IF servers[arg[p].port] # 0 THEN "as_drop" ELSE "as_spawn"]
    /\ UNCHANGED <<lock, instPort, instPw, aborted, task, tx, rx, nInst, arg,
                   fresh, req, rsp, removedOk, inflight, dropped, cvars, svars>>

\* end of the if-let block: v goes out of scope and is dropped
AsDrop(p) ==
    /\ pc[p] = "as_drop"
    /\ aborted' = DropServerInstance(aborted, victim[p])
    /\ pc' = [pc EXCEPT ![p] = "as_spawn"]
    /\ UNCHANGED <<servers, lock, instPort, instPw, task, tx, rx, nInst, arg,
                   victim, fresh, req, rsp, removedOk, inflight, dropped, cvars, svars>>

\* future::abortable(..) and tokio::spawn(server_fut)
AsSpawn(p) ==
    /\ pc[p] = "as_spawn"
    /\ Budget
    /\ nInst' = nInst + 1
    /\ fresh' = [fresh EXCEPT ![p] = nInst + 1]
    /\ task' = [task EXCEPT ![nInst + 1] = "spawned"]
    /\ instPort' = [instPort EXCEPT ![nInst + 1] = arg[p].port]
    /\ instPw' = [instPw EXCEPT ![nInst + 1] = arg[p].pw]
    /\ pc' = [pc EXCEPT ![p] = "as_insert"]
    /\ UNCHANGED <<servers, lock, aborted, tx, rx, arg, victim, req, rsp,
                   removedOk, inflight, dropped, cvars, svars>>

\* servers.insert(server_port, ServerInstance {..}); the Option it returns is dropped
AsInsert(p) ==
    /\ pc[p] = "as_insert"
    /\ servers' = MapInsert(servers, arg[p].port, fresh[p])
    /\ aborted' = IF servers[arg[p].port] # 0
                  THEN DropServerInstance(aborted, servers[arg[p].port])
                  ELSE aborted
    /\ removedOk' = removedOk \ {arg[p].port}
    /\ pc' = [pc EXCEPT ![p] = "as_unlock"]
    /\ UNCHANGED <<lock, instPort, instPw, task, tx, rx, nInst, arg, victim, fresh,
                   req, rsp, inflight, dropped, cvars, svars>>

\* end of add_server: the MutexGuard is dropped; handle_add then returns
\* Ok(AddResponse("ok"))
AsUnlock(p) ==
    /\ pc[p] = "as_unlock"
    /\ lock' = "none"
    /\ victim' = [victim EXCEPT ![p] = 0]
    /\ fresh' = [fresh EXCEPT ![p] = 0]
    /\ arg' = [arg EXCEPT ![p] = NoArg]
    /\ IF p = Loop
       THEN /\ rsp' = [NoRsp EXCEPT !.kind = "Add", !.text = "ok"]
            /\ pc' = [pc EXCEPT ![p] = "send"]
       ELSE /\ rsp' = rsp
            /\ pc' = [pc EXCEPT ![p] = "idle"]
    /\ UNCHANGED <<servers, instPort, instPw, aborted, task, tx, rx, nInst, req,
                   removedOk, inflight, dropped, cvars, svars>>

(***************************************************************************)
(* Manager::run: the control-protocol receive loop and its handlers        *)
(***************************************************************************)
\* the requests listener.recv_from() may decode
Requests ==
    {[op |-> "Add", port |-> p, pw |-> w, method |-> m, mode |-> d] :
        p \in Ports, w \in Passwords, m \in {"none", "ok", "bad"}, d \in {"none", "ok", "bad"}}
    \cup {[NoReq EXCEPT !.op = "Remove", !.port = p] : p \in Ports}
    \cup {[NoReq EXCEPT !.op = o] : o \in {"List", "Ping", "Stat"}}

\* a match that answers a Stat with the counters, as it answers a Ping
DispatchStatAsPing(r) ==
    CASE r.op = "Add" -> "add_parse"
      [] r.op = "Remove" -> "rm_lock"
      [] r.op = "List" -> "ls_lock"
      [] r.op \in {"Ping", "Stat"} -> "pg_lock"

\* the first position of the match arm that handles a request
Dispatch(r) ==
    CASE r.op = "Add" -> "add_parse"
      [] r.op = "Remove" -> "rm_lock"
      [] r.op = "List" -> "ls_lock"
      [] r.op = "Ping" -> "pg_lock"
      [] r.op = "Stat" -> "stat"

\* a loop that spawns the handling of a request and goes on receiving
CanRecvWhileHandling(at) == at # "init" /\ at # "exit"

\* the loop calls recv_from() only at the top of the loop body: every handler
\* and every send_to is awaited inside the body
CanRecv(at) == at = "recv"

\* a loop that returns the error of recv_from() with ?
RecvErrReturns(at) == "exit"

\* Err(err) => { error!(..); continue; }: back to the top of the loop body
RecvErrContinues(at) == "recv"

\* let _ = listener.send_to(..).await: the io::Result is discarded, the match arm
\* ends and the loop body starts again
AfterSend(ok) == "recv"

\* ManagerListener::bind(..).await?: run starts once no caller borrows the manager
RunBind ==
    /\ pc[Loop] = "init"
    /\ \A c \in Callers : pc[c] = "idle"
    /\ \E ok \in BOOLEAN : pc' = [pc EXCEPT ![Loop] = IF ok THEN "recv" ELSE "exit"]
    /\ UNCHANGED <<servers, lock, instPort, instPw, aborted, task, tx, rx, nInst, arg,
                   victim, fresh, req, rsp, removedOk, inflight, dropped, cvars, svars>>

\* recv_from() returns Err (the socket failed or the datagram does not decode):
\* error!(..); continue
RecvError ==
    /\ CanRecv(pc[Loop])
    /\ dropped' = TRUE
    /\ pc' = [pc EXCEPT ![Loop] = RecvErrContinues(pc[Loop])]
    /\ UNCHANGED <<servers, lock, instPort, instPw, aborted, task, tx, rx, nInst,
                   arg, victim, fresh, req, rsp, removedOk, inflight, cvars, svars>>

\* recv_from() returns Ok((req, peer_addr)); match req
Recv(r) ==
    /\ CanRecv(pc[Loop])
    /\ r.op = "Add" => Budget
    /\ req' = r
    /\ inflight' = inflight + 1
    /\ dropped' = FALSE
    /\ pc' = [pc EXCEPT ![Loop] = Dispatch(r)]
    /\ UNCHANGED <<servers, lock, instPort, instPw, aborted, task, tx, rx, nInst, arg,
                   victim, fresh, rsp, removedOk, cvars, svars>>

\* handle_add up to the call of add_server: an unrecognized method or mode
\* returns Ok(AddResponse(err)) at once
HandleAddParse ==
    /\ pc[Loop] = "add_parse"
    /\ IF AddParseError(req) # ""
       THEN /\ rsp' = [NoRsp EXCEPT !.kind = "Add", !.text = AddParseError(req)]
            /\ pc' = [pc EXCEPT ![Loop] = "send"]
            /\ arg' = arg
       ELSE /\ arg' = [arg EXCEPT ![Loop] = [port |-> req.port, pw |-> req.pw]]
            /\ pc' = [pc EXCEPT ![Loop] = "as_lock"]
            /\ rsp' = rsp
    /\ UNCHANGED <<servers, lock, instPort, instPw, aborted, task, tx, rx, nInst,
                   victim, fresh, req, removedOk, inflight, dropped, cvars, svars>>

\* handle_remove, handle_list, handle_ping: self.servers.lock().await
HandlerLock(at, next) ==
    /\ pc[Loop] = at
    /\ MutexFree(lock)
    /\ lock' = Loop
    /\ pc' = [pc EXCEPT ![Loop] = next]
    /\ UNCHANGED <<servers, instPort, instPw, aborted, task, tx, rx, nInst, arg,
                   victim, fresh, req, rsp, removedOk, inflight, dropped, cvars, svars>>

\* handle_remove: servers.remove(&req.server_port); the Option<ServerInstance> it
\* returns is dropped at the end of the statement
HandleRemove ==
    /\ pc[Loop] = "rm_remove"
    /\ servers' = MapRemove(servers, req.port)
    /\ aborted' = IF servers[req.port] # 0
                  THEN DropServerInstance(aborted, servers[req.port])
                  ELSE aborted
    /\ rsp' = [NoRsp EXCEPT !.kind = "Remove", !.text = RemoveResponse(servers[req.port] # 0)]
    /\ pc' = [pc EXCEPT ![Loop] = "rm_ret"]
    /\ UNCHANGED <<lock, instPort, instPw, task, tx, rx, nInst, arg, victim, fresh,
                   req, removedOk, inflight, dropped, cvars, svars>>

\* handle_remove returns: the guard is dropped, the response goes back to run
HandleRemoveReturn ==
    /\ pc[Loop] = "rm_ret"
    /\ lock' = "none"
    /\ removedOk' = IF rsp.text = "ok" THEN removedOk \cup {req.port} ELSE removedOk
    /\ pc' = [pc EXCEPT ![Loop] = "send"]
    /\ UNCHANGED <<servers, instPort, instPw, aborted, task, tx, rx, nInst, arg,
                   victim, fresh, req, rsp, inflight, dropped, cvars, svars>>

\* handle_list: the loop over instances.iter()
HandleList ==
    /\ pc[Loop] = "ls_read"
    /\ \E o \in IterOrders(servers) :
           rsp' = [NoRsp EXCEPT !.kind = "List", !.servers = ListEntries(servers, o)]
    /\ pc' = [pc EXCEPT ![Loop] = "rd_ret"]
    /\ UNCHANGED <<servers, lock, instPort, instPw, aborted, task, tx, rx, nInst, arg,
                   victim, fresh, req, removedOk, inflight, dropped, cvars, svars>>

\* handle_ping: the loop over instances.iter()
HandlePing ==
    /\ pc[Loop] = "pg_read"
    /\ rsp' = [NoRsp EXCEPT !.kind = "Ping", !.stat = PingStat(servers)]
    /\ pc' = [pc EXCEPT ![Loop] = "rd_ret"]
    /\ UNCHANGED <<servers, lock, instPort, instPw, aborted, task, tx, rx, nInst, arg,
                   victim, fresh, req, removedOk, inflight, dropped, cvars, svars>>

\* handle_list / handle_ping return: the guard is dropped
HandleReadReturn ==
    /\ pc[Loop] = "rd_ret"
    /\ lock' = "none"
    /\ pc' = [pc EXCEPT ![Loop] = "send"]
    /\ UNCHANGED <<servers, instPort, instPw, aborted, task, tx, rx, nInst, arg,
                   victim, fresh, req, rsp, removedOk, inflight, dropped, cvars, svars>>

\* handle_stat: nothing; the loop goes back to recv_from without a send_to
HandleStat ==
    /\ pc[Loop] = "stat"
    /\ req' = NoReq
    /\ inflight' = inflight - 1
    /\ pc' = [pc EXCEPT ![Loop] = "recv"]
    /\ UNCHANGED <<servers, lock, instPort, instPw, aborted, task, tx, rx, nInst, arg,
                   victim, fresh, rsp, removedOk, dropped, cvars, svars>>

\* let _ = listener.send_to(&rsp, &peer_addr).await: delivered or not, the loop
\* goes on
Send ==
    /\ pc[Loop] = "send"
    /\ rsp' = NoRsp
    /\ req' = NoReq
    /\ inflight' = inflight - 1
    /\ \E ok \in BOOLEAN : pc' = [pc EXCEPT ![Loop] = AfterSend(ok)]
    /\ UNCHANGED <<servers, lock, instPort, instPw, aborted, task, tx, rx, nInst, arg,
                   victim, fresh, removedOk, dropped, cvars, svars>>

(***************************************************************************)
(* The spawned server task: Abortable<server.run()>                        *)
(***************************************************************************)
\* first poll of the spawned future: Abortable returns Err(Aborted) when the
\* handle was aborted; otherwise server.run() binds its listeners, which may fail
ServerStart(i) ==
    /\ task[i] = "spawned"
    /\ \E ok \in BOOLEAN :
           task' = [task EXCEPT ![i] = IF aborted[i] THEN "stopped"
                                       ELSE IF ok THEN "running" ELSE "failed"]
    /\ UNCHANGED <<servers, lock, instPort, instPw, aborted, tx, rx, nInst, pc, arg,
                   victim, fresh, req, rsp, removedOk, inflight, dropped, cvars, svars>>

\* bytes relayed by a server task
Relayed == LET Sum[i \in 0..MaxInst] == IF i = 0 THEN 0 ELSE Sum[i - 1] + tx[i] + rx[i]
           IN  Sum[MaxInst]

\* the running server accepts a connection and relays a byte of it
ServerRelay(i) ==
    /\ task[i] = "running"
    /\ Relayed < MaxBytes
    /\ \/ tx' = [tx EXCEPT ![i] = @ + 1] /\ rx' = rx
       \/ rx' = [rx EXCEPT ![i] = @ + 1] /\ tx' = tx
    /\ UNCHANGED <<servers, lock, instPort, instPw, aborted, task, nInst, pc, arg,
                   victim, fresh, req, rsp, removedOk, inflight, dropped, cvars, svars>>

\* the next poll of an aborted task: Abortable returns Err(Aborted) and the
\* future, with its sockets, is dropped
ServerObserveAbort(i) ==
    /\ task[i] = "running"
    /\ aborted[i]
    /\ task' = [task EXCEPT ![i] = "stopped"]
    /\ UNCHANGED <<servers, lock, instPort, instPw, aborted, tx, rx, nInst, pc, arg,
                   victim, fresh, req, rsp, removedOk, inflight, dropped, cvars, svars>>

MNext ==
    \/ \E p \in Callers, port \in Ports, pw \in Passwords : CallAddServer(p, port, pw)
    \/ \E p \in Procs : AsLock(p)
    \/ \E p \in Procs : AsRemove(p)
    \/ \E p \in Procs : AsDrop(p)
    \/ \E p \in Procs : AsSpawn(p)
    \/ \E p \in Procs : AsInsert(p)
    \/ \E p \in Procs : AsUnlock(p)
    \/ RunBind
    \/ RecvError
    \/ \E r \in Requests : Recv(r)
    \/ HandleAddParse
    \/ HandlerLock("rm_lock", "rm_remove")
    \/ HandlerLock("ls_lock", "ls_read")
    \/ HandlerLock("pg_lock", "pg_read")
    \/ HandleRemove
    \/ HandleRemoveReturn
    \/ HandleList
    \/ HandlePing
    \/ HandleReadReturn
    \/ HandleStat
    \/ Send
    \/ \E i \in Insts : ServerStart(i)
    \/ \E i \in Insts : ServerRelay(i)
    \/ \E i \in Insts : ServerObserveAbort(i)

SpecManager == Init /\ [][MNext]_vars

(***************************************************************************)
(* Claims about the Manager, checked under SpecManager                     *)
(***************************************************************************)
\* instances that add_server has spawned
Spawned == {i \in Insts : task[i] # "none"}

\* C1: when an Add replaces the instance of an occupied port, the old instance's
\* abort has been signalled before the step that inserts the new instance, and
\* after that step the new instance is the map entry of the port and the only
\* instance of that port that is not aborted.
C1_ReplaceAbortsOldFirst ==
    [][\A p \in Procs :
          (pc[p] = "as_insert" /\ pc'[p] = "as_unlock" /\ victim[p] # 0) =>
              /\ aborted[victim[p]]
              /\ servers'[arg[p].port] = fresh[p]
              /\ \A i \in Insts :
                     (task'[i] # "none" /\ instPort'[i] = arg[p].port /\ ~aborted'[i])
                         => i = fresh[p]]_vars

\* C1 witness: the loop's Add has replaced an instance and still holds the guard
C1_Witness ==
    /\ pc[Loop] = "as_unlock"
    /\ victim[Loop] # 0
    /\ aborted[victim[Loop]]
    /\ servers[arg[Loop].port] = fresh[Loop]

\* C2: an entry is in the map only if its instance was fully started: an
\* instance whose start failed is not the map entry of its port.
C2_AllOrNothing ==
    \A i \in Insts : task[i] = "failed" => servers[instPort[i]] # i

\* the ports a list or ping response in the hands of the loop reports
Reported ==
    IF pc[Loop] \in {"rd_ret", "send"}
    THEN {rsp.servers[k].server_port : k \in DOMAIN rsp.servers} \cup {e[1] : e \in rsp.stat}
    ELSE {}

C4_RemoveAbsent ==
    [][(pc[Loop] = "rm_remove" /\ pc'[Loop] = "rm_ret") =>
          /\ servers'[req.port] = 0
          /\ servers[req.port] = 0 =>
                 /\ servers' = servers
                 /\ aborted' = aborted
                 /\ task' = task
                 /\ rsp'.kind = "Remove"
                 /\ rsp'.text = "ok"]_vars

\* C4 witness: a second Remove of a port, with no Add in between, has answered
C4_Witness ==
    /\ pc[Loop] = "rm_ret"
    /\ req.port \in removedOk
    /\ rsp.text = "ok"
    /\ servers[req.port] = 0

\* positions at which a process reads or writes the map
MapAccess == {"as_remove", "as_drop", "as_spawn", "as_insert", "as_unlock",
              "rm_remove", "rm_ret", "ls_read", "pg_read", "rd_ret"}

\* C5: while an add_server is between removing the old entry of a port and
\* inserting the new one, it owns the mutex and no other process is at a
\* position where it reads or writes the map.
C5_ReplaceAtomic ==
    \A p \in Procs :
        pc[p] \in {"as_drop", "as_spawn", "as_insert"} =>
            /\ lock = p
            /\ \A q \in Procs \ {p} : pc[q] \notin MapAccess

\* C5 witness: an add_server has taken the old entry out and not yet inserted
\* the new one while another add_server waits for the mutex
C5_Witness ==
    \E p, q \in Procs :
        /\ p # q
        /\ pc[p] = "as_spawn"
        /\ victim[p] # 0
        /\ servers[arg[p].port] = 0
        /\ pc[q] = "as_lock"

\* the loop receives and decodes some datagram
RecvAny == \E r \in Requests : Recv(r)

\* C6 as stated: while the handling of a request (its handler or the send of
\* its response) is in progress, the loop can receive the next datagram.
C6_Original == inflight > 0 => ENABLED RecvAny

\* C6 as amended: the loop handles each request inline: at most one request is
\* in handling, and while it is, the loop cannot receive the next datagram.
C6_Amended ==
    /\ inflight \in {0, 1}
    /\ inflight = 1 => ~ENABLED RecvAny

\* C6 witness: the response of a Remove is still to be sent
C6_Witness ==
    /\ inflight = 1
    /\ pc[Loop] = "send"
    /\ rsp.kind = "Remove"

(***************************************************************************)
(* AutoProxyClientStream: the connect paths                                *)
(***************************************************************************)
\* the public entry points, with the acl argument of connect_with_opts_acl_opt
Entries == {"opts", "acl", "acl_opt_none", "acl_opt_some"}

\* connect_with_opts_acl_opt: match *acl; the other two entries are direct
FirstStep(entry) ==
    IF entry \in {"acl", "acl_opt_some"} THEN "acl_check" ELSE "proxy_connect"

\* a proxy path that drops the error without telling the server
ProxyErrorUnreported(n) == n

\* connect_with_opts, Err(err) arm: server.report_failure().await
ProxyErrorReported(n) == n + 1

\* a bypass path that charges its failure to the server
DirectErrorReported(n) == n + 1

\* connect_with_opts_acl, bypass arm: connect_remote_with_opts(..).await?
\* returns the error with no call on server
DirectErrorUnreported(n) == n

\* AutoProxyClientStream::is_proxied
is_proxied(s) == s = "Proxied"

\* AutoProxyClientStream::is_bypassed
is_bypassed(s) == s = "Bypassed"

\* a caller starts a connection attempt through one of the entry points
ConnCall(entry) ==
    /\ cpc = "idle"
    /\ Len(clog) < MaxConn
    /\ cpc' = FirstStep(entry)
    /\ cpath' = "none"
    /\ cresult' = "none"
    /\ creports' = 0
    /\ UNCHANGED <<clog, mvars, svars>>

\* connect_with_opts_acl: acl.check_target_bypassed(&context, &addr).await
AclCheck ==
    /\ cpc = "acl_check"
    /\ \E bypassed \in BOOLEAN :
           /\ cpc' = IF bypassed THEN "direct_connect" ELSE "proxy_connect"
           /\ cpath' = IF bypassed THEN "direct" ELSE cpath
    /\ UNCHANGED <<cresult, creports, clog, mvars, svars>>

\* connect_with_opts_acl: TcpStream::connect_remote_with_opts(..).await? and
\* Ok(AutoProxyClientStream::Bypassed(..))
DirectConnect ==
    /\ cpc = "direct_connect"
    /\ \E ok \in BOOLEAN :
           /\ cresult' = IF ok THEN "Bypassed" ELSE "Err"
           /\ creports' = IF ok THEN creports ELSE DirectErrorUnreported(creports)
    /\ cpc' = "done"
    /\ UNCHANGED <<cpath, clog, mvars, svars>>

\* connect_with_opts: ProxyClientStream::connect_with_opts_map(..).await
ProxyConnect ==
    /\ cpc = "proxy_connect"
    /\ cpath' = "proxy"
    /\ \E ok \in BOOLEAN :
           /\ cpc' = IF ok THEN "done" ELSE "proxy_err"
           /\ cresult' = IF ok THEN "Proxied" ELSE cresult
    /\ UNCHANGED <<creports, clog, mvars, svars>>

\* connect_with_opts, Err(err) arm, first statement
ProxyReport ==
    /\ cpc = "proxy_err"
    /\ creports' = ProxyErrorReported(creports)
    /\ cpc' = "proxy_ret"
    /\ UNCHANGED <<cpath, cresult, clog, mvars, svars>>

\* connect_with_opts, Err(err) arm: return Err(err)
ProxyReturnErr ==
    /\ cpc = "proxy_ret"
    /\ cresult' = "Err"
    /\ cpc' = "done"
    /\ UNCHANGED <<cpath, creports, clog, mvars, svars>>

\* the caller takes the io::Result
ConnReturn ==
    /\ cpc = "done"
    /\ clog' = Append(clog, <<cpath, cresult, creports>>)
    /\ cpc' = "idle"
    /\ UNCHANGED <<cpath, cresult, creports, mvars, svars>>

CNext ==
    \/ \E entry \in Entries : ConnCall(entry)
    \/ AclCheck
    \/ DirectConnect
    \/ ProxyConnect
    \/ ProxyReport
    \/ ProxyReturnErr
    \/ ConnReturn

SpecConn == Init /\ [][CNext]_vars

\* C7: a tunneled attempt that returns an error has called report_failure
\* exactly once by the time the error is returned, and a tunneled attempt that
\* returns a stream has not called it.
C7_ProxyFailureReportedOnce ==
    /\ (cpath = "proxy" /\ cresult = "Err") => creports = 1
    /\ (cpath = "proxy" /\ cresult = "Proxied") => creports = 0
    /\ \A k \in DOMAIN clog :
           clog[k][1] = "proxy" => clog[k][3] = (IF clog[k][2] = "Err" THEN 1 ELSE 0)

\* C7 witness: a failed tunneled attempt is about to hand its error to the caller
C7_Witness ==
    /\ cpc = "done"
    /\ cpath = "proxy"
    /\ cresult = "Err"
    /\ creports = 1

\* C8: an attempt the ACL sends to the bypass branch never calls
\* report_failure, returns the Bypassed variant or the error of the direct
\* connect, and a returned stream is proxied exactly when it is not bypassed.
C8_BypassLeavesStatAlone ==
    /\ cpath = "direct" =>
           /\ creports = 0
           /\ cpc = "done" => cresult \in {"Bypassed", "Err"}
    /\ \A k \in DOMAIN clog :
           /\ clog[k][1] = "direct" => (clog[k][3] = 0 /\ clog[k][2] \in {"Bypassed", "Err"})
           /\ clog[k][2] # "Err" =>
                  /\ is_proxied(clog[k][2]) = ~is_bypassed(clog[k][2])
                  /\ is_bypassed(clog[k][2]) = (clog[k][1] = "direct")

\* C8 witness: a failed direct connect and a successful one have both returned
C8_Witness ==
    /\ \E k \in DOMAIN clog : clog[k] = <<"direct", "Err", 0>>
    /\ \E k \in DOMAIN clog : clog[k] = <<"direct", "Bypassed", 0>>

(***************************************************************************)
(* ServerStat: push_score and recalculate_score                            *)
(***************************************************************************)
\* enum Score
Errored == [kind |-> "Errored", lat |-> 0]
Latency(l) == [kind |-> "Latency", lat |-> l]

\* the outcomes the first FreeLen pushes choose from
FreeScores == {Errored, Latency(0), Latency(100), Latency(200), Latency(2000)}

\* the k-th outcome of the long mixed run: small latencies, every fourth push
\* an error
Pattern(k) == IF k % 4 = 0 THEN Errored ELSE Latency((k * 7) % 23)

\* one of the free pushes of the history carried a latency above zero
HasLarge(h) == \E k \in 1..FreeLen : h[k].kind = "Latency" /\ h[k].lat > 0

\* the outcomes the next push may carry after the history h: free at first;
\* then errors only when a large latency was pushed (the window then never
\* holds more than FreeLen samples), else either errors only or the mixed run,
\* as the push after the free ones decides
NextScores(h) ==
    IF Len(h) < FreeLen THEN FreeScores
    ELSE IF HasLarge(h) THEN {Errored}
    ELSE IF Len(h) = FreeLen THEN {Errored, Latency(1)}
    ELSE IF h[FreeLen + 1] = Errored THEN {Errored}
    ELSE {Pattern(Len(h) + 1)}

\* a push that evicts the newest entry of a full window
PushEvictNewest(q, s) ==
    IF Len(Append(q, s)) > MAX_LATENCY_QUEUE_SIZE THEN q ELSE Append(q, s)

\* push_score: push_back(score), then pop_front() when the queue is longer
\* than MAX_LATENCY_QUEUE_SIZE
PushBack(q, s) ==
    IF Len(Append(q, s)) > MAX_LATENCY_QUEUE_SIZE THEN Tail(Append(q, s)) ELSE Append(q, s)

\* recalculate_score: cerr, the count of Score::Errored met by the loop over
\* the entries lo..hi of the queue (the sum is split in two halves)
RECURSIVE CountErrored(_, _, _)
CountErrored(q, lo, hi) ==
    IF lo > hi THEN 0
    ELSE IF lo = hi THEN (IF q[lo].kind = "Errored" THEN 1 ELSE 0)
    ELSE CountErrored(q, lo, (lo + hi) \div 2) + CountErrored(q, (lo + hi) \div 2 + 1, hi)

\* a loop that takes an Errored entry as a sample of zero milliseconds
VlatWithErrors(q) == SubSeq([k \in DOMAIN q |-> q[k].lat], 1, Len(q))

\* recalculate_score: vlat, the latencies pushed by the same loop
Vlat(q) ==
    LET lats == SelectSeq(q, LAMBDA e : e.kind = "Latency")
    IN  SubSeq([k \in DOMAIN lats |-> lats[k].lat], 1, Len(lats))

\* vlat.sort(): ascending; the k-th entry is the value x that has fewer than k
\* entries below it and at least k entries not above it
Sort(v) ==
    LET below(x) == Cardinality({j \in DOMAIN v : v[j] < x})
        upto(x) == Cardinality({j \in DOMAIN v : v[j] <= x})
        sorted == [k \in DOMAIN v |->
                      CHOOSE x \in {v[j] : j \in DOMAIN v} : below(x) < k /\ k <= upto(x)]
    IN  SubSeq(sorted, 1, Len(v))

\* a median that takes the upper central value when the count is even
MedianUpper(v) == v[Len(v) \div 2 + 1]

\* recalculate_score: the median of the sorted vlat; mid = len / 2 and the
\* sequence is indexed from 1
Median(v) ==
    IF Len(v) % 2 = 0
    THEN (v[Len(v) \div 2 + 1] + v[Len(v) \div 2]) \div 2
    ELSE v[Len(v) \div 2 + 1]

\* recalculate_score: total_lat over the entries lo..hi (the sum is split in
\* two halves)
RECURSIVE Total(_, _, _)
Total(v, lo, hi) ==
    IF lo > hi THEN 0
    ELSE IF lo = hi THEN v[lo]
    ELSE Total(v, lo, (lo + hi) \div 2) + Total(v, (lo + hi) \div 2 + 1, hi)

\* recalculate_score: acc_diff over the entries lo..hi, with
\* diff = s - total / n = (s * n - total) / n; the value is the numerator over n * n
RECURSIVE AccDiff(_, _, _, _, _)
AccDiff(v, total, n, lo, hi) ==
    IF lo > hi THEN 0
    ELSE IF lo = hi THEN (v[lo] * n - total) * (v[lo] * n - total)
    ELSE AccDiff(v, total, n, lo, (lo + hi) \div 2)
             + AccDiff(v, total, n, (lo + hi) \div 2 + 1, hi)

\* an error rate taken over the latency samples instead of the whole window
FailRateOverSamples(cerr, len) == [num |-> cerr, den |-> len - cerr]

\* the rate of the successful probes in place of the failed ones
FailRateOfSuccess(cerr, len) == [num |-> len - cerr, den |-> len]

\* recalculate_score: self.fail_rate = cerr as f64 / self.latency_queue.len() as f64
FailRate(cerr, len) == [num |-> cerr, den |-> len]

\* recalculate_score: latency_mean and latency_stdev once vlat.len() > 1;
\* ((1.0 / (n - 1.0)) * acc_diff).sqrt() is kept as the fraction under the root
MeanAndStdev(v) ==
    [mean |-> [num |-> Total(v, 1, Len(v)), den |-> Len(v)],
     stdev |-> [num |-> AccDiff(v, Total(v, 1, Len(v)), Len(v), 1, Len(v)),
                den |-> Len(v) * Len(v) * (Len(v) - 1)]]

\* a recalculation that clears the deviation when fewer than two samples remain
StdevReset(v, old) == IF Len(v) > 1 THEN MeanAndStdev(v).stdev ELSE [num |-> 0, den |-> 1]

\* recalculate_score: latency_stdev is assigned only inside if vlat.len() > 1
StdevKept(v, old) == IF Len(v) > 1 THEN MeanAndStdev(v).stdev ELSE old

\* const SCORE_RTT_WEIGHT: f64 = 1.0
SCORE_RTT_WEIGHT == 1

\* const SCORE_FAIL_WEIGHT: f64 = 3.0
SCORE_FAIL_WEIGHT == 3

\* const SCORE_STDEV_WEIGHT: f64 = 1.0
SCORE_STDEV_WEIGHT == 1

\* the largest deviation of two samples when the sum of the squares is divided
\* by their number, 2, instead of by n - 1
max_population_stdev ==
    LET mrtt == MAX_SERVER_RTT
        avg == (0 + mrtt) \div 2
        diff1 == (0 - avg) * (0 - avg)
        diff2 == (mrtt - avg) * (mrtt - avg)
    IN  [num |-> diff1 + diff2, den |-> 2]

\* max_latency_stdev(): (diff1 + diff2).sqrt(), kept as the fraction under the root
max_latency_stdev ==
    LET mrtt == MAX_SERVER_RTT
        avg == (0 + mrtt) \div 2
        diff1 == (0 - avg) * (0 - avg)
        diff2 == (mrtt - avg) * (mrtt - avg)
    IN  [num |-> diff1 + diff2, den |-> 1]

\* the digits of the natural number n in base 10000, least significant first;
\* products of the score formula exceed the 32-bit integers and are computed
\* on such digit sequences
Digits(n) == <<n % 10000, (n \div 10000) % 10000, n \div 100000000>>

\* the digits of the number whose digit sums are c[k..], with the carry added
RECURSIVE Carry(_, _, _)
Carry(c, k, carry) ==
    IF k > Len(c) THEN <<>>
    ELSE <<(c[k] + carry) % 10000>> \o Carry(c, k + 1, (c[k] + carry) \div 10000)

\* the digits of x * n, for the digit sequence x and the natural number n
Times(x, n) ==
    LET d == Digits(n)
        term(k, j) == IF k - j + 1 \in 1..Len(x) THEN x[k - j + 1] * d[j] ELSE 0
        c == [k \in 1..(Len(x) + 3) |-> term(k, 1) + term(k, 2) + term(k, 3)]
    IN  Carry(c, 1, 0)

\* x <= y for digit sequences, decided from the digit at position k downwards
RECURSIVE LeqFrom(_, _, _)
LeqFrom(x, y, k) ==
    LET dx == IF k <= Len(x) THEN x[k] ELSE 0
        dy == IF k <= Len(y) THEN y[k] ELSE 0
    IN  IF k = 0 THEN TRUE
        ELSE IF dx # dy THEN dx < dy
        ELSE LeqFrom(x, y, k - 1)

\* x <= y for digit sequences
Leq(x, y) == LeqFrom(x, y, IF Len(x) > Len(y) THEN Len(x) ELSE Len(y))

\* score(): k <= score * 1000.0, with the f64 values taken as the rationals
\* they stand for (no rounding of the quotients and of the root), and
\*   score = (nrtt * W_RTT + fail_rate * W_FAIL + nstdev * W_STDEV) / (W_RTT + W_FAIL + W_STDEV),
\*   nrtt = r / MAX_SERVER_RTT and nstdev = sqrt(sd) / sqrt(max_latency_stdev).
\* Both sides are multiplied by (W_RTT + W_FAIL + W_STDEV) * MAX_SERVER_RTT * fr.den:
\*   m <= c * sqrt(sd / max_latency_stdev), decided on the squares when m > 0
ScoreAtLeast(k, r, fr, sd) ==
    LET wsum == SCORE_RTT_WEIGHT + SCORE_FAIL_WEIGHT + SCORE_STDEV_WEIGHT
        m == k * wsum * MAX_SERVER_RTT * fr.den
                 - 1000 * (SCORE_RTT_WEIGHT * r * fr.den
                               + SCORE_FAIL_WEIGHT * fr.num * MAX_SERVER_RTT)
        c == 1000 * SCORE_STDEV_WEIGHT * MAX_SERVER_RTT * fr.den
    IN  \/ m <= 0
        \/ /\ sd.num > 0
           /\ Leq(Times(Times(Times(Digits(m), m), sd.den), max_latency_stdev.num),
                  Times(Times(Times(Digits(c), c), sd.num), max_latency_stdev.den))

\* (score * 1000.0) as u64: the largest k in lo..hi-1 with k <= score * 1000.0
RECURSIVE Truncate(_, _, _, _, _)
Truncate(lo, hi, r, fr, sd) ==
    IF hi - lo <= 1 THEN lo
    ELSE IF ScoreAtLeast((lo + hi) \div 2, r, fr, sd)
         THEN Truncate((lo + hi) \div 2, hi, r, fr, sd)
         ELSE Truncate(lo, (lo + hi) \div 2, r, fr, sd)

\* ServerStat::score() on the fields rtt, fail_rate and latency_stdev; the
\* search covers 0..2047, twice the range the three normalized terms span
score(r, fr, sd) == Truncate(0, 2048, r, fr, sd)

\* ServerStat::push_score(score): the push, the eviction and recalculate_score;
\* the value returned is score() on the fields just assigned
PushScore(s) ==
    /\ Len(pushed) < MaxPushes
    /\ s \in NextScores(pushed)
    /\ pushed' = Append(pushed, s)
    /\ LET q == PushBack(latency_queue, s)
           v == Sort(Vlat(q))
       IN  /\ latency_queue' = q
           /\ fail_rate' = IF Len(q) = 0 THEN fail_rate
                           ELSE FailRate(CountErrored(q, 1, Len(q)), Len(q))
           /\ rtt' = IF Len(q) > 0 /\ Len(v) > 0 THEN Median(v) ELSE rtt
           /\ latency_mean' = IF Len(q) > 0 /\ Len(v) > 1 THEN MeanAndStdev(v).mean
                              ELSE latency_mean
           /\ latency_stdev' = IF Len(q) > 0 THEN StdevKept(v, latency_stdev)
                               ELSE latency_stdev
    /\ returned' = score(rtt', fail_rate', latency_stdev')
    /\ UNCHANGED <<mvars, cvars>>

\* every outcome a push may carry
Scores == FreeScores \cup {Latency(l) : l \in 0..22}

SNext == \E s \in Scores : PushScore(s)

SpecStat == Init /\ [][SNext]_vars

(***************************************************************************)
(* Claims about ServerStat, checked under SpecStat                         *)
(***************************************************************************)
\* C9: after n pushes the window holds at most 99 entries, and they are the
\* last min(n, 99) scores pushed, in push order; after 150 pushes it holds the
\* 52nd to the 150th.
C9_WindowIsLastPushes ==
    /\ Len(latency_queue) <= 99
    /\ LET n == Len(pushed)
           m == IF n < 99 THEN n ELSE 99
       IN  latency_queue = SubSeq(pushed, n - m + 1, n)
    /\ Len(pushed) = 150 =>
           /\ Len(latency_queue) = 99
           /\ \A k \in 1..99 : latency_queue[k] = pushed[51 + k]

\* C9 witness: 150 pushes of a mixed run are done; the oldest entry kept is
\* the 52nd push and differs from the first push
C9_Witness ==
    /\ Len(pushed) = 150
    /\ Len(latency_queue) = 99
    /\ latency_queue[1] = pushed[52]
    /\ latency_queue[1] # pushed[1]
    /\ latency_queue[99] = pushed[150]
    /\ latency_queue[99] # latency_queue[98]

\* C10: after every push fail_rate lies in [0, 1] and equals the number of
\* Errored entries of the window over the window length, and the value under
\* the root of latency_stdev is a non-negative number, so latency_stdev >= 0.
C10_RatesInRange ==
    /\ fail_rate.den > 0
    /\ 0 <= fail_rate.num
    /\ fail_rate.num <= fail_rate.den
    /\ latency_stdev.den > 0
    /\ latency_stdev.num >= 0
    /\ Len(pushed) > 0 =>
           fail_rate.num * Len(latency_queue) =
               Cardinality({k \in DOMAIN latency_queue : latency_queue[k] = Errored})
                   * fail_rate.den

\* C10 witness: a full window that mixes errors and differing latencies
C10_Witness ==
    /\ Len(latency_queue) = 99
    /\ 0 < fail_rate.num
    /\ fail_rate.num < fail_rate.den
    /\ latency_stdev.num > 0

\* the positions of the window that hold a Latency entry
Samples == {j \in DOMAIN latency_queue : latency_queue[j].kind = "Latency"}

\* x is the k-th smallest latency of the window
IsKth(x, k) ==
    /\ Cardinality({j \in Samples : latency_queue[j].lat < x}) < k
    /\ k <= Cardinality({j \in Samples : latency_queue[j].lat <= x})

\* C11: a freshly constructed ServerStat has rtt 2000, fail_rate 1.0, stdev 0.0
\* and an empty window, and its score is exactly 800.
C11_FreshScore ==
    Len(pushed) = 0 =>
        /\ rtt = 2000
        /\ fail_rate.num = fail_rate.den
        /\ latency_stdev.num = 0
        /\ latency_queue = <<>>
        /\ score(rtt, fail_rate, latency_stdev) = 800

\* C11 witness: the constructed ServerStat, before any push, scored
C11_Witness ==
    /\ pushed = <<>>
    /\ returned = -1
    /\ rtt = MAX_SERVER_RTT
    /\ score(rtt, fail_rate, latency_stdev) = 800

\* C12: a single Latency(100) pushed onto a fresh ServerStat returns 10: the
\* median is 100, fail_rate is 0 and the stdev is still 0.
C12_FirstLatency ==
    pushed = <<Latency(100)>> =>
        /\ returned = 10
        /\ rtt = 100
        /\ fail_rate.num = 0
        /\ latency_stdev.num = 0

\* C12 witness: the push of Latency(100) onto the fresh ServerStat has returned
C12_Witness ==
    /\ pushed = <<Latency(100)>>
    /\ latency_queue = <<Latency(100)>>
    /\ returned = 10

\* C13: Errored pushed onto a fresh ServerStat returns 800, the fresh score: the
\* median and the stdev keep the values of new() and fail_rate is 1 over a
\* window of one.
C13_FirstErrored ==
    pushed = <<Errored>> =>
        /\ returned = 800
        /\ rtt = new.rtt
        /\ latency_stdev = new.latency_stdev
        /\ fail_rate = [num |-> 1, den |-> 1]
        /\ Len(latency_queue) = 1

\* C13 witness: the push of Errored onto the fresh ServerStat has returned
C13_Witness ==
    /\ pushed = <<Errored>>
    /\ latency_queue = <<Errored>>
    /\ returned = 800

C20_StaleValuesKept ==
    [][pushed' # pushed =>
          LET left == Cardinality({j \in DOMAIN latency_queue' :
                                       latency_queue'[j].kind = "Latency"})
          IN  /\ left < 2 => (latency_mean' = latency_mean /\ latency_stdev' = latency_stdev)
              /\ left = 0 => rtt' = rtt
              /\ fail_rate'.den = Len(latency_queue')
              /\ fail_rate'.num = Len(latency_queue') - left]_vars

\* C20 witness: a full window of Errored entries after the latencies 100 and
\* 200 were pushed and evicted: the last median, the mean and the deviation of
\* the two are still stored
C20_Witness ==
    /\ Len(latency_queue) = 99
    /\ Samples = {}
    /\ rtt = 200
    /\ latency_stdev = [num |-> 20000, den |-> 4]
    /\ latency_mean = [num |-> 300, den |-> 2]
    /\ fail_rate.num = fail_rate.den

(***************************************************************************)
(* Claims about the requests of the control protocol, checked under        *)
(* SpecManager                                                             *)
(***************************************************************************)
\* the loop is handling an Add whose method or mode string does not parse
BadAdd == req.op = "Add" /\ (req.method = "bad" \/ req.mode = "bad")

\* C15: while the loop handles an Add request whose method or mode is not
\* recognized, no step changes the instance map, signals an abort or spawns a
\* task; the handler goes from the parse to the send of a response and on to
\* the next receive, never into add_server and never out of the loop; and the
\* response it sends is an Add response whose text is neither "ok" nor empty.
C15_BadAddRejected ==
    /\ [][BadAdd =>
             /\ servers' = servers
             /\ aborted' = aborted
             /\ nInst' = nInst
             /\ fresh' = fresh
             /\ pc'[Loop] \in {"add_parse", "send", "recv"}]_vars
    /\ []((BadAdd /\ pc[Loop] = "send") =>
             /\ rsp.kind = "Add"
             /\ rsp.text \notin {"ok", ""})

\* C15 witness: an Add with a recognized method and an unrecognized mode, for a
\* port whose instance is running, has been answered with the error text; the
\* instance is still the entry of the port and not aborted
C15_Witness ==
    /\ pc[Loop] = "send"
    /\ req.op = "Add"
    /\ req.method = "ok"
    /\ req.mode = "bad"
    /\ rsp.kind = "Add"
    /\ rsp.text = "unrecognized mode"
    /\ servers[req.port] # 0
    /\ task[servers[req.port]] = "running"
    /\ ~aborted[servers[req.port]]

\* the step of a recv_from() that returns an error
RecvFails == pc[Loop] = "recv" /\ ~dropped /\ dropped'

\* C16: once run is past the bind, no step takes it out of the loop; the step
\* of a failed receive changes neither the map nor the abort state of an
\* instance, produces no response and no request to handle, and leaves the
\* loop at recv_from; after it the loop is at recv_from with nothing to send and
\* can receive the next datagram.
C16_LoopNeverTerminates ==
    /\ [][pc[Loop] \notin {"init", "exit"} => pc'[Loop] \notin {"init", "exit"}]_vars
    /\ [][RecvFails =>
             /\ servers' = servers
             /\ aborted' = aborted
             /\ task' = task
             /\ rsp' = NoRsp
             /\ req' = NoReq
             /\ inflight' = 0
             /\ pc'[Loop] = "recv"]_vars
    /\ [](dropped => (pc[Loop] = "recv" /\ rsp = NoRsp /\ inflight = 0 /\ ENABLED RecvAny))

\* C16 witness: a receive has failed while the map holds a running instance
\* and after a response was sent for an earlier request
C16_Witness ==
    /\ dropped
    /\ pc[Loop] = "recv"
    /\ removedOk # {}
    /\ \E p \in Ports : servers[p] # 0 /\ task[servers[p]] = "running"

\* C17: the step that builds a list response puts into it, for every port
\* that has a map entry, exactly one element, which carries that port and the
\* password of the entry's instance, and no other element; the step that
\* builds a ping response puts into it, for every port that has a map entry,
\* exactly one pair, whose value is tx + rx of the entry's instance, and no
\* other pair; while a List or a Ping is handled no step changes the map or
\* signals an abort.
C17_ListAndPingReportTheMap ==
    /\ [][(pc[Loop] = "ls_read" /\ pc'[Loop] = "rd_ret") =>
             /\ rsp'.kind = "List"
             /\ Len(rsp'.servers) = Cardinality({p \in Ports : servers[p] # 0})
             /\ \A k \in DOMAIN rsp'.servers :
                    /\ rsp'.servers[k].server_port \in Ports
                    /\ servers[rsp'.servers[k].server_port] # 0
                    /\ rsp'.servers[k].password = instPw[servers[rsp'.servers[k].server_port]]
             /\ \A p \in Ports :
                    servers[p] # 0 =>
                        Cardinality({k \in DOMAIN rsp'.servers :
                                        rsp'.servers[k].server_port = p}) = 1]_vars
    /\ [][(pc[Loop] = "pg_read" /\ pc'[Loop] = "rd_ret") =>
             /\ rsp'.kind = "Ping"
             /\ \A e \in rsp'.stat :
                    /\ e[1] \in Ports
                    /\ servers[e[1]] # 0
                    /\ e[2] = tx[servers[e[1]]] + rx[servers[e[1]]]
             /\ \A p \in Ports :
                    servers[p] # 0 => Cardinality({e \in rsp'.stat : e[1] = p}) = 1]_vars
    /\ [][req.op \in {"List", "Ping"} =>
             /\ servers' = servers
             /\ aborted' = aborted
             /\ nInst' = nInst]_vars

\* C17 witness: a ping response built while both ports have an entry, one of
\* them with a received byte and nothing transmitted
C17_Witness ==
    /\ pc[Loop] = "rd_ret"
    /\ rsp.kind = "Ping"
    /\ Cardinality(rsp.stat) = 2
    /\ \E e \in rsp.stat : e[2] = 1 /\ rx[servers[e[1]]] = 1 /\ tx[servers[e[1]]] = 0
    /\ \E e \in rsp.stat : e[2] = 0

\* C18: while the loop holds a Stat request it is in handle_stat, has no
\* response in hand and never reaches a send; no step taken meanwhile changes
\* the map, signals an abort, spawns a task or takes the mutex; and the step
\* of handle_stat changes no counter and no task and leaves the loop at
\* recv_from with no request in handling.
C18_StatIsNoOp ==
    /\ [](req.op = "Stat" => (pc[Loop] = "stat" /\ rsp = NoRsp /\ lock = "none"))
    /\ [][req.op = "Stat" =>
             /\ servers' = servers
             /\ aborted' = aborted
             /\ nInst' = nInst
             /\ lock' = lock
             /\ rsp' = NoRsp]_vars
    /\ [][(pc[Loop] = "stat" /\ pc'[Loop] # "stat") =>
             /\ tx' = tx
             /\ rx' = rx
             /\ task' = task
             /\ pc'[Loop] = "recv"
             /\ inflight' = 0]_vars

\* C18 witness: a Stat request is in handling while the map has a running
\* instance that has relayed a byte
C18_Witness ==
    /\ req.op = "Stat"
    /\ pc[Loop] = "stat"
    /\ \E p \in Ports :
           /\ servers[p] # 0
           /\ task[servers[p]] = "running"
           /\ tx[servers[p]] + rx[servers[p]] = 1

\* instances that were a map entry and have been taken out of the map, by
\* add_server or by handle_remove
TakenOut ==
    {i \in Spawned : servers[instPort[i]] # i /\ \A p \in Procs : fresh[p] # i}

\* C19: an instance that is no longer the map entry of its port has released
\* its sockets and timers by the time another operation can observe the port
\* as absent or as bound to the replacement: whenever the mutex of the map is
\* free, the task of no such instance is still running.
C19_ReleasedBeforeEntryGone ==
    lock = "none" => \A i \in TakenOut : task[i] # "running"

\* spawned instances whose abort has not been signalled
Unaborted == {i \in Spawned : ~aborted[i]}

\* C21 as stated: in every state, every spawned instance that is not the map
\* entry of its port has had its abort signalled.
C21_Original ==
    \A i \in Spawned : servers[instPort[i]] # i => aborted[i]

\* C21 as amended: in every state each port has at most one spawned instance
\* whose abort has not been signalled; whenever the mutex of the map is free
\* that instance is the map entry of its port; and while an add_server holds
\* the mutex the only instances outside the map that are not aborted are the
\* one it has just taken out and not yet dropped and the one it has just
\* spawned and not yet inserted.
C21_Amended ==
    /\ \A port \in Ports : Cardinality({i \in Unaborted : instPort[i] = port}) <= 1
    /\ lock = "none" => \A i \in Unaborted : servers[instPort[i]] = i
    /\ \A i \in Unaborted :
           servers[instPort[i]] # i =>
               /\ lock \in Procs
               /\ \/ pc[lock] = "as_drop" /\ victim[lock] = i
                  \/ pc[lock] = "as_insert" /\ fresh[lock] = i

\* C21 witness: the mutex is free, a port has had two instances, the replaced
\* one is aborted with its task still running and the replacement is the map
\* entry
C21_Witness ==
    /\ lock = "none"
    /\ \E i, j \in Spawned :
           /\ i # j
           /\ instPort[i] = instPort[j]
           /\ aborted[i]
           /\ task[i] = "running"
           /\ ~aborted[j]
           /\ servers[instPort[j]] = j

(***************************************************************************)
(* The range of the score, checked under SpecStat                          *)
(***************************************************************************)
\* every latency pushed so far lies in 0..MAX_SERVER_RTT
LatenciesInRange ==
    \A k \in DOMAIN pushed :
        pushed[k].kind = "Latency" => pushed[k].lat \in 0..MAX_SERVER_RTT

\* C22: when every latency pushed lies in 0..2000, then before and after
\* every push rtt is at most MAX_SERVER_RTT, fail_rate lies in [0, 1], the
\* deviation is at most max_latency_stdev (compared on the squares), score()
\* on the fresh value is at most 1000, and the value the last push_score
\* returned is at most 1000.
C22_ScoreAtMost1000 ==
    LatenciesInRange =>
        /\ rtt \in 0..MAX_SERVER_RTT
        /\ 0 <= fail_rate.num
        /\ fail_rate.num <= fail_rate.den
        /\ 0 <= latency_stdev.num
        /\ 0 < latency_stdev.den
        /\ Leq(Times(Digits(latency_stdev.num), max_latency_stdev.den),
               Times(Digits(max_latency_stdev.num), latency_stdev.den))
        /\ Len(pushed) = 0 => score(rtt, fail_rate, latency_stdev) <= 1000
        /\ returned <= 1000

\* C22 witness: a full window of errors after the latencies 0 and 2000: the
\* median kept is 2000, the deviation kept is max_latency_stdev, fail_rate is
\* 1 and the push has returned 1000
C22_Witness ==
    /\ Len(pushed) > MAX_LATENCY_QUEUE_SIZE + 1
    /\ pushed[1] = Latency(0)
    /\ pushed[2] = Latency(MAX_SERVER_RTT)
    /\ \A k \in DOMAIN latency_queue : latency_queue[k] = Errored
    /\ rtt = MAX_SERVER_RTT
    /\ fail_rate.num = fail_rate.den
    /\ latency_stdev.num * max_latency_stdev.den = max_latency_stdev.num * latency_stdev.den
    /\ returned = 1000

====
